---- MODULE Spec2Model ----
(***************************************************************************)
(* Model of vectoria/Embeddings.py: CharacterTrigramFastText.__init__      *)
(* downloads a textual vector file, compiles it into a memory-mapped       *)
(* (words, dimensions) float32 matrix under a temporary name, renames it   *)
(* to its final name and opens it read-only.                               *)
(*                                                                         *)
(* Strings are sequences of one-character strings.  A text file is a       *)
(* sequence of lines (without the newline).  The file system is a map from *)
(* the three path names the constructor derives to inodes, and a map from  *)
(* inodes to contents, so that a rename, a truncation and a mapping kept   *)
(* open across a rename behave as they do on a POSIX file system.          *)
(***************************************************************************)
EXTENDS Integers, Sequences, FiniteSets, TLC

----------------------------------------------------------------------------
(* Bounds of the model *)

\* data lines after the first line of a source file
MaxLines == 2
\* inodes of the file system
MaxInodes == 6

----------------------------------------------------------------------------
(* Characters and strings *)

Digits == {"0", "1", "2", "3", "4"}

DigitVal(c) ==
    CASE c = "0" -> 0 [] c = "1" -> 1 [] c = "2" -> 2 [] c = "3" -> 3
      [] c = "4" -> 4

\* code points of the characters that occur in the modelled files
Code(c) ==
    CASE c = "a" -> 97 [] c = "b" -> 98 [] c = "c" -> 99 [] c = "d" -> 100
      [] c = "x" -> 120
      [] c = "0" -> 48 [] c = "1" -> 49 [] c = "2" -> 50 [] c = "3" -> 51
      [] c = "4" -> 52
      [] c = "#" -> 35 [] c = " " -> 32

RECURSIVE SplitFrom(_, _, _)
\* str.split(): the maximal runs of non-blank characters of s[i..], cur being
\* the run read so far
SplitFrom(s, i, cur) ==
    IF i > Len(s)
    THEN IF cur = <<>> THEN <<>> ELSE <<cur>>
    ELSE IF s[i] = " "
         THEN IF cur = <<>>
              THEN SplitFrom(s, i + 1, <<>>)
              ELSE <<cur>> \o SplitFrom(s, i + 1, <<>>)
         ELSE SplitFrom(s, i + 1, Append(cur, s[i]))

Split(s) == SplitFrom(s, 1, <<>>)

\* the fields that are decimal literals: over the characters of the model,
\* int() and np.float32() accept exactly the non-empty digit strings
IsNumber(field) == field # <<>> /\ \A i \in 1..Len(field) : field[i] \in Digits

RECURSIVE ParseNumber(_)
ParseNumber(field) ==
    IF field = <<>> THEN 0
    ELSE 10 * ParseNumber(SubSeq(field, 1, Len(field) - 1))
         + DigitVal(field[Len(field)])

----------------------------------------------------------------------------
(* Sequencers.CharacterTrigramSequencer (not part of the sources at hand) *)

\* hash space of the sequencer; the constructor is called with maxlen only
SequencerVocabSize == 4
HashBase == 31
HashModulus == 65536
Sentinel == "#"
maxlen == 1024

\* hash of one 3-character window
TrigramHash(w) ==
    (((Code(w[1]) * HashBase + Code(w[2])) % HashModulus) * HashBase
        + Code(w[3])) % HashModulus

RECURSIVE FoldWindows(_, _, _)
FoldWindows(s, i, acc) ==
    IF i + 2 > Len(s) THEN acc
    ELSE FoldWindows(s, i + 1,
             (acc * HashBase + TrigramHash(SubSeq(s, i, i + 2))) % HashModulus)

token_to_id(token, n) ==
    IF token = <<>> THEN 0
    ELSE FoldWindows(<<Sentinel>> \o token \o <<Sentinel>>, 1, 0) % n

\* transform(documents): per document, the ids of its whitespace-separated
\* tokens, truncated to maxlen and right-padded with 0
transform(documents) ==
    [d \in 1..Len(documents) |->
        LET tokens == Split(documents[d])
        IN  [i \in 1..maxlen |->
                IF i <= Len(tokens)
                THEN token_to_id(tokens[i], SequencerVocabSize)
                ELSE 0]]

----------------------------------------------------------------------------
(* Source files the remote server may deliver *)

RECURSIVE Join(_)
\* the fields of a line separated by single blanks
Join(fields) ==
    IF fields = <<>> THEN <<>>
    ELSE IF Len(fields) = 1 THEN fields[1]
         ELSE fields[1] \o <<" ">> \o Join(Tail(fields))

abc == <<"a", "b", "c">>
acb == <<"a", "c", "b">>
bca == <<"b", "c", "a">>
cab == <<"c", "a", "b">>

\* first lines that declare a shape a matrix can have
Headers ==
    { Join(<< <<"4">>, <<"2">> >>),
      Join(<< <<"3">>, <<"2">> >>),
      Join(<< <<"1", "0", "1">>, <<"1">> >>) }

\* first lines that end the compilation before its loop: an empty shape, one
\* field, three fields, a field that is no integer
RejectedHeaders ==
    { Join(<< <<"0">>, <<"2">> >>),
      Join(<< <<"4">> >>),
      Join(<< <<"4">>, <<"2">>, <<"1">> >>),
      Join(<< <<"x">>, <<"2">> >>) }

DataLines ==
    { Join(<< abc, <<"1">>, <<"2">> >>),
      Join(<< acb, <<"1">>, <<"2">> >>),
      Join(<< bca, <<"3">>, <<"1">> >>),
      Join(<< cab, <<"2">>, <<"3">> >>),
      Join(<< <<"a", "b">>, <<"1">>, <<"2">> >>),
      Join(<< acb, <<"3">> >>),
      Join(<< cab, <<"2">>, <<"3">>, <<"1">> >>),
      <<"a", "c", "b", " ", " ", "2", " ", "x">>,
      <<>> }

SeqsUpTo(S, n) == UNION { [1..k -> S] : k \in 0..n }

Sources ==
    { <<>> }
    \cup { <<h>> \o ls : h \in Headers, ls \in SeqsUpTo(DataLines, MaxLines) }
    \cup { <<h>> \o ls : h \in RejectedHeaders, ls \in SeqsUpTo(DataLines, 1) }

\* the source files explored with two concurrent callers
ConcSources ==
    { <<h>> \o ls : h \in { Join(<< <<"4">>, <<"2">> >>) },
                    ls \in { << Join(<< abc, <<"1">>, <<"2">> >>),
                                Join(<< acb, <<"1">>, <<"2">> >>) >>,
                             << Join(<< acb, <<"1">>, <<"2">> >>) >> } }

\* the source files of the single construction followed to its end: a
\* header that declares a shape, and at most one data line
LiveSources == { <<h>> \o ls : h \in Headers, ls \in SeqsUpTo(DataLines, 1) }

\* the releases of the vectors a replaced vector file can hold
EnvSources ==
    { <<h>> \o << Join(<< acb, <<"1">>, <<"2">> >>) >> :
        h \in { Join(<< <<"4">>, <<"2">> >>), Join(<< <<"3">>, <<"2">> >>) } }

----------------------------------------------------------------------------
(* Paths and file contents *)

FAST_TEXT_STEM == "en-fasttext"

\* download_path('fasttext', language) for the one language modelled
download_path == [stem |-> FAST_TEXT_STEM, suffix |-> ".vec"]

\* pathlib's Path.with_suffix
with_suffix(p, s) == [p EXCEPT !.suffix = s]

vectors_path == download_path
final_path == with_suffix(vectors_path, ".numpy")
\* the temporary path the download writes to (line 106)
download_tmp == with_suffix(vectors_path, ".tmp")
\* variant: the matrix is mapped under its final name
compile_in_place == final_path

\* the temporary path the compilation maps (lines 119-120)
compile_tmp == with_suffix(final_path, ".tmp")

Paths == { with_suffix(download_path, s) : s \in {".vec", ".tmp", ".numpy"} }

Inodes == 1..MaxInodes
NoInode == 0

FreeInode  == [kind |-> "free",   lines |-> <<>>, rows |-> <<>>]
EmptyFile  == [kind |-> "empty",  lines |-> <<>>, rows |-> <<>>]
MixedFile  == [kind |-> "mixed",  lines |-> <<>>, rows |-> <<>>]
Text(ls)   == [kind |-> "text",   lines |-> ls,   rows |-> <<>>]
Matrix(rs) == [kind |-> "matrix", lines |-> <<>>, rows |-> rs]

\* np.zeros(d)
zeros(d) == [j \in 1..d |-> 0]

\* the content of a file np.memmap(mode='w+', shape=(w, d)) has just created:
\* w rows of d zeros; row r of the matrix is rows[r + 1]
ZeroMatrix(w, d) == Matrix([r \in 1..w |-> zeros(d)])

----------------------------------------------------------------------------
(* Parsing of the header and of one data line *)

\* variant: the first two fields are taken and the rest ignored
ParseHeaderLenient(first_line) ==
    LET fields == Split(first_line)
    IN  IF Len(fields) >= 2 /\ IsNumber(fields[1]) /\ IsNumber(fields[2])
        THEN [ok |-> TRUE, words |-> ParseNumber(fields[1]),
              dimensions |-> ParseNumber(fields[2])]
        ELSE [ok |-> FALSE, words |-> 0, dimensions |-> 0]

\* words, dimensions = map(int, first_line.split()): a ValueError unless the
\* line has exactly two fields and both are integers
ParseHeader(first_line) ==
    LET fields == Split(first_line)
    IN  IF Len(fields) = 2 /\ IsNumber(fields[1]) /\ IsNumber(fields[2])
        THEN [ok |-> TRUE, words |-> ParseNumber(fields[1]),
              dimensions |-> ParseNumber(fields[2])]
        ELSE [ok |-> FALSE, words |-> 0, dimensions |-> 0]

\* variant: the token's length is not tested
LongEnoughAnyToken(segments, d) == Len(segments) > d

\* the guard of line 124
LongEnough(segments, d) == Len(segments) > d /\ Len(segments[1]) > 2

\* numpy's assignment of a 1-d array of k values to a row of d values
Broadcastable(k, d) == k = d \/ k = 1

\* variant: the values are stored one by one, so the values before the first
\* one that does not parse reach the row
LineEffectPartial(line, w, d) ==
    LET segments == Split(line)
        Skip == [kind |-> "skip", word |-> 0, numbers |-> <<>>]
    IN  IF ~LongEnough(segments, d) THEN Skip
        ELSE LET word == transform(<<segments[1]>>)[1][1]
                 values == Tail(segments)
                 parsed(j) == \A i \in 1..j : IsNumber(values[i])
             IN  IF word >= w
                 THEN [kind |-> "IndexError", word |-> word,
                       numbers |-> <<>>]
                 ELSE IF parsed(Len(values)) /\ ~Broadcastable(Len(values), d)
                      THEN Skip
                      ELSE [kind |-> "write", word |-> word,
                            numbers |-> [j \in 1..d |->
                                LET i == IF Len(values) = 1 THEN 1 ELSE j
                                IN  IF parsed(i) THEN ParseNumber(values[i])
                                    ELSE 0]]

\* What the body of the loop (lines 123-130) does with one line for a matrix
\* of shape (w, d): "skip" the line, "write" numbers to row word, or raise the
\* IndexError that the except clause does not catch
LineEffect(line, w, d) ==
    LET segments == Split(line)
        Skip == [kind |-> "skip", word |-> 0, numbers |-> <<>>]
    IN  IF ~LongEnough(segments, d) THEN Skip
        ELSE LET word == transform(<<segments[1]>>)[1][1]
                 values == Tail(segments)
             IN  IF \E i \in 1..Len(values) : ~IsNumber(values[i])
                 THEN Skip
                 ELSE IF word >= w
                      THEN [kind |-> "IndexError", word |-> word,
                            numbers |-> <<>>]
                      ELSE IF ~Broadcastable(Len(values), d)
                           THEN Skip
                           ELSE [kind |-> "write", word |-> word,
                                 numbers |-> [j \in 1..d |->
                                     ParseNumber(values[
                                         IF Len(values) = 1 THEN 1 ELSE j])]]

\* variant: a row that already holds a vector is not overwritten
WriteRowFirstWins(content, w, d, word, numbers) ==
    IF content.kind = "matrix" /\ Len(content.rows) = w
       /\ Len(content.rows[1]) = d
    THEN IF content.rows[word + 1] = zeros(d)
         THEN Matrix([content.rows EXCEPT ![word + 1] = numbers])
         ELSE content
    ELSE MixedFile

\* embeddings[word] = numbers through a mapping of shape (w, d); a mapping
\* whose file was truncated or replaced under it no longer holds a matrix
WriteRow(content, w, d, word, numbers) ==
    IF content.kind = "matrix" /\ Len(content.rows) = w
       /\ Len(content.rows[1]) = d
    THEN Matrix([content.rows EXCEPT ![word + 1] = numbers])
    ELSE MixedFile

\* variant: the pad row is left as the loop wrote it
ZeroPadSkipped(content, w, d) == content

\* embeddings[0] = np.zeros(dimensions)
ZeroPad(content, w, d) == WriteRow(content, w, d, 0, zeros(d))

\* variant: mode 'r+' semantics, a file of the right shape keeps its content
MemmapReuse(content, w, d) ==
    IF content.kind = "matrix" /\ Len(content.rows) = w
       /\ Len(content.rows[1]) = d
    THEN content
    ELSE ZeroMatrix(w, d)

\* the content of the file after np.memmap(mode='w+', shape=(w, d)) opened
\* it: mode w+ truncates what the file held and fills it with zeros
MemmapCreate(content, w, d) == ZeroMatrix(w, d)

\* f.write(data) at offset pos of a file opened 'wb'; lines skipped over by
\* the write are holes
Hole == <<"?">>
WriteChunk(content, pos, data) ==
    IF content.kind \in {"empty", "text"}
    THEN Text([i \in 1..(IF Len(content.lines) > pos + 1
                         THEN Len(content.lines) ELSE pos + 1) |->
                 IF i = pos + 1 THEN data
                 ELSE IF i <= Len(content.lines) THEN content.lines[i]
                      ELSE Hole])
    ELSE MixedFile

\* number of float32 values a file holds
FileSize(content) ==
    IF content.kind = "matrix"
    THEN Len(content.rows) * Len(content.rows[1])
    ELSE 0

\* value j of row k in the (w, d) view np.memmap lays over a file's values
ViewRow(content, d, k) ==
    IF content.kind = "matrix"
    THEN LET d0 == Len(content.rows[1])
         IN  [j \in 1..d |->
                LET off == k * d + j - 1
                IN  content.rows[(off \div d0) + 1][(off % d0) + 1]]
    ELSE <<>>

\* self.embeddings[id]: numpy indexing of the (w, d) mapping; an index below
\* zero counts from the end, an index outside -w..w-1 raises IndexError
row(content, w, d, id) ==
    IF id >= w \/ id < -w
    THEN [ok |-> FALSE, row |-> <<>>]
    ELSE [ok |-> TRUE,
          row |-> ViewRow(content, d, IF id < 0 THEN id + w ELSE id)]

\* the ids a caller looks up in a store of w rows
LookupIds(w) == {-w - 1, -w, -1, 0, w - 1, w}

----------------------------------------------------------------------------
(* State *)

Procs == {1, 2}

VARIABLES
    remote,          \* the file the download URL serves
    dir,             \* path -> inode, NoInode when no file has that name
    files,           \* inode -> content
    pc,              \* position of each caller in __init__
    words,           \* local words
    dimensions,      \* local dimensions
    embeddings,      \* inode mapped by the local embeddings (w+ mapping)
    f,               \* inode of the download's open file f
    src,             \* inode of the file the for loop iterates
    lineNo,          \* lines the for loop has consumed
    progress,        \* chunks the download has written
    selfEmbeddings,  \* self.embeddings: the read-only mapping and its shape
    error,           \* the exception that ended the construction
    looked           \* the last row lookup on self.embeddings and its outcome

vars == <<remote, dir, files, pc, words, dimensions, embeddings, f, src,
          lineNo, progress, selfEmbeddings, error, looked>>

NoStore == [inode |-> NoInode, words |-> 0, dimensions |-> 0]
NoError == [type |-> "none", at |-> "none"]
NoLookup == [asked |-> FALSE, id |-> 0, ok |-> FALSE, row |-> <<>>]

ActivePcs == {"dl_open", "dl_write", "dl_rename", "check_final",
              "read_header", "alloc", "stream", "zero_row", "flush",
              "rename", "open_store"}

\* inodes that have a name or are held open
Live ==
    { dir[q] : q \in Paths }
    \cup { embeddings[p] : p \in Procs } \cup { f[p] : p \in Procs }
    \cup { src[p] : p \in Procs }
    \cup { selfEmbeddings[p].inode : p \in Procs }

\* the file system frees an inode with no name and no open handle
Collect(fs) == [i \in Inodes |-> IF i \in Live' THEN fs[i] ELSE FreeInode]

FreshInode ==
    CHOOSE i \in Inodes :
        /\ files[i].kind = "free"
        /\ \A j \in Inodes : files[j].kind = "free" => i <= j

\* open(path, 'wb') and the open of np.memmap(mode='w+'): the inode the path
\* names, or a new one
OpenForWrite(path) == IF dir[path] # NoInode THEN dir[path] ELSE FreshInode

\* Path.rename on POSIX: the target name, when taken, is replaced
Renamed(from, to) == [dir EXCEPT ![to] = dir[from], ![from] = NoInode]

SetLocals(p, pcv, w, d, e, ff, s, ln, pr, se, err) ==
    /\ pc' = [pc EXCEPT ![p] = pcv]
    /\ words' = [words EXCEPT ![p] = w]
    /\ dimensions' = [dimensions EXCEPT ![p] = d]
    /\ embeddings' = [embeddings EXCEPT ![p] = e]
    /\ f' = [f EXCEPT ![p] = ff]
    /\ src' = [src EXCEPT ![p] = s]
    /\ lineNo' = [lineNo EXCEPT ![p] = ln]
    /\ progress' = [progress EXCEPT ![p] = pr]
    /\ selfEmbeddings' = [selfEmbeddings EXCEPT ![p] = se]
    /\ error' = [error EXCEPT ![p] = err]

\* the step to position pcv that changes no other local
Goto(p, pcv) ==
    SetLocals(p, pcv, words[p], dimensions[p], embeddings[p], f[p], src[p],
              lineNo[p], progress[p], selfEmbeddings[p], error[p])

\* an exception leaves __init__: the locals and their handles are released
Raise(p, type) ==
    SetLocals(p, "failed", 0, 0, NoInode, NoInode, NoInode, 0, 0, NoStore,
              [type |-> type, at |-> pc[p]])

\* the state before a caller starts: the served file is one of S; the
\* vector file is either not downloaded yet or (downloaded) was left in
\* place by an earlier download
InitWith(S, downloaded) ==
    /\ remote \in S
    /\ dir = [q \in Paths |->
                IF downloaded /\ q = vectors_path THEN 1 ELSE NoInode]
    /\ files = [i \in Inodes |->
                  IF downloaded /\ i = 1 THEN Text(remote) ELSE FreeInode]
    /\ pc = [p \in Procs |-> "idle"]
    /\ words = [p \in Procs |-> 0]
    /\ dimensions = [p \in Procs |-> 0]
    /\ embeddings = [p \in Procs |-> NoInode]
    /\ f = [p \in Procs |-> NoInode]
    /\ src = [p \in Procs |-> NoInode]
    /\ lineNo = [p \in Procs |-> 0]
    /\ progress = [p \in Procs |-> 0]
    /\ selfEmbeddings = [p \in Procs |-> NoStore]
    /\ error = [p \in Procs |-> NoError]
    /\ looked = [p \in Procs |-> NoLookup]

Init == InitWith(Sources, FALSE)

----------------------------------------------------------------------------
(* CharacterTrigramFastText.__init__, one action per step *)

\* lines 95-100: a caller starts a construction and tests vectors_path
Start(p) ==
    /\ pc[p] \in {"idle", "done", "failed"}
    /\ SetLocals(p, IF dir[vectors_path] = NoInode THEN "dl_open"
                    ELSE "check_final",
                 0, 0, NoInode, NoInode, NoInode, 0, 0, NoStore, NoError)
    /\ dir' = dir
    /\ files' = Collect(files)
    /\ looked' = [looked EXCEPT ![p] = NoLookup]
    /\ UNCHANGED remote

\* lines 101-108: open(vectors_path.with_suffix('.tmp'), 'wb')
DlOpen(p) ==
    /\ pc[p] = "dl_open"
    /\ LET i == OpenForWrite(download_tmp)
       IN  /\ SetLocals(p, "dl_write", 0, 0, NoInode, i, NoInode, 0, 0,
                        NoStore, error[p])
           /\ dir' = [dir EXCEPT ![download_tmp] = i]
           /\ files' = Collect([files EXCEPT ![i] = EmptyFile])
    /\ UNCHANGED <<remote, looked>>

\* lines 109-112: one chunk written, or the end of the response and of the
\* with block
DlWrite(p) ==
    /\ pc[p] = "dl_write"
    /\ IF progress[p] < Len(remote)
       THEN /\ SetLocals(p, "dl_write", 0, 0, NoInode, f[p], NoInode, 0,
                         progress[p] + 1, NoStore, error[p])
            /\ dir' = dir
            /\ files' = Collect([files EXCEPT ![f[p]] =
                   WriteChunk(@, progress[p], remote[progress[p] + 1])])
       ELSE /\ SetLocals(p, "dl_rename", 0, 0, NoInode, NoInode, NoInode, 0,
                         0, NoStore, error[p])
            /\ dir' = dir
            /\ files' = Collect(files)
    /\ UNCHANGED <<remote, looked>>

\* line 113: vectors_path.with_suffix('.tmp').rename(vectors_path)
DlRename(p) ==
    /\ pc[p] = "dl_rename"
    /\ IF dir[download_tmp] = NoInode
       THEN /\ Raise(p, "FileNotFoundError")
            /\ dir' = dir
       ELSE /\ Goto(p, "check_final")
            /\ dir' = Renamed(download_tmp, vectors_path)
    /\ files' = Collect(files)
    /\ UNCHANGED <<remote, looked>>

\* variant: the existence test is dropped
NeedsCompileAlways == TRUE

\* line 115: not final_path.exists()
NeedsCompile == dir[final_path] = NoInode

\* line 115: if not final_path.exists()
CheckFinal(p) ==
    /\ pc[p] = "check_final"
    /\ Goto(p, IF NeedsCompile THEN "read_header" ELSE "open_store")
    /\ dir' = dir
    /\ files' = Collect(files)
    /\ UNCHANGED <<remote, looked>>

\* the first line f.readline() returns for the file named vectors_path:
\* '' at the end of the file
FirstLine(content) ==
    IF content.lines = <<>> THEN <<>> ELSE content.lines[1]

\* lines 116-118: read and parse the header
ReadHeader(p) ==
    /\ pc[p] = "read_header"
    /\ IF dir[vectors_path] = NoInode
       THEN Raise(p, "FileNotFoundError")
       ELSE LET content == files[dir[vectors_path]]
                h == ParseHeader(FirstLine(content))
            IN  IF content.kind \notin {"text", "empty"}
                THEN Raise(p, "UnicodeDecodeError")
                ELSE IF ~h.ok
                     THEN Raise(p, "ValueError")
                     ELSE SetLocals(p, "alloc", h.words, h.dimensions,
                                    NoInode, NoInode, NoInode, 0, 0, NoStore,
                                    error[p])
    /\ dir' = dir
    /\ files' = Collect(files)
    /\ UNCHANGED <<remote, looked>>

\* lines 119-121: np.memmap(final_path.with_suffix('.tmp'), mode='w+',
\* shape=(words, dimensions)) creates or truncates the file and fills it with
\* zeros (an empty shape cannot be mapped); then the source is opened again
\* for the loop
Alloc(p) ==
    /\ pc[p] = "alloc"
    /\ LET i == OpenForWrite(compile_tmp)
       IN  /\ dir' = [dir EXCEPT ![compile_tmp] = i]
           /\ IF words[p] * dimensions[p] = 0
              THEN /\ Raise(p, "ValueError")
                   /\ files' = Collect([files EXCEPT ![i] = EmptyFile])
              ELSE IF dir[vectors_path] = NoInode
                   THEN /\ Raise(p, "FileNotFoundError")
                        /\ files' = Collect([files EXCEPT ![i] =
                               MemmapCreate(@, words[p], dimensions[p])])
                   ELSE /\ SetLocals(p, "stream", words[p], dimensions[p], i,
                                     NoInode, dir[vectors_path], 0, 0,
                                     NoStore, error[p])
                        /\ files' = Collect([files EXCEPT ![i] =
                               MemmapCreate(@, words[p], dimensions[p])])
    /\ UNCHANGED <<remote, looked>>

\* lines 121-130: one iteration of the loop, or its end
Stream(p) ==
    /\ pc[p] = "stream"
    /\ dir' = dir
    /\ LET content == files[src[p]]
       IN  IF content.kind \notin {"text", "empty"}
           THEN /\ Raise(p, "UnicodeDecodeError")
                /\ files' = Collect(files)
           ELSE IF lineNo[p] >= Len(content.lines)
                THEN /\ SetLocals(p, "zero_row", words[p], dimensions[p],
                                  embeddings[p], NoInode, NoInode, lineNo[p],
                                  0, NoStore, error[p])
                     /\ files' = Collect(files)
                ELSE LET e == LineEffect(content.lines[lineNo[p] + 1],
                                         words[p], dimensions[p])
                     IN  IF e.kind = "IndexError"
                         THEN /\ Raise(p, "IndexError")
                              /\ files' = Collect(files)
                         ELSE /\ SetLocals(p, "stream", words[p],
                                     dimensions[p], embeddings[p], NoInode,
                                     src[p], lineNo[p] + 1, 0, NoStore,
                                     error[p])
                              /\ files' = Collect(
                                     IF e.kind = "write"
                                     THEN [files EXCEPT ![embeddings[p]] =
                                              WriteRow(@, words[p],
                                                  dimensions[p], e.word,
                                                  e.numbers)]
                                     ELSE files)
    /\ UNCHANGED <<remote, looked>>

\* lines 131-132: embeddings[0] = np.zeros(dimensions)
ZeroRow(p) ==
    /\ pc[p] = "zero_row"
    /\ Goto(p, "flush")
    /\ dir' = dir
    /\ files' = Collect([files EXCEPT ![embeddings[p]] =
           ZeroPad(@, words[p], dimensions[p])])
    /\ UNCHANGED <<remote, looked>>

\* variant: the file is renamed while the mapping is still open and unflushed
RenameUnflushed(p) ==
    /\ pc[p] = "flush"
    /\ Goto(p, "open_store")
    /\ dir' = Renamed(compile_tmp, final_path)
    /\ files' = Collect(files)
    /\ UNCHANGED <<remote, looked>>

\* lines 133-134: embeddings.flush(); del embeddings
Flush(p) ==
    /\ pc[p] = "flush"
    /\ SetLocals(p, "rename", words[p], dimensions[p], NoInode, NoInode,
                 NoInode, lineNo[p], 0, NoStore, error[p])
    /\ dir' = dir
    /\ files' = Collect(files)
    /\ UNCHANGED <<remote, looked>>

\* line 135: final_path.with_suffix('.tmp').rename(final_path)
Rename(p) ==
    /\ pc[p] = "rename"
    /\ IF dir[compile_tmp] = NoInode
       THEN /\ Raise(p, "FileNotFoundError")
            /\ dir' = dir
       ELSE /\ Goto(p, "open_store")
            /\ dir' = Renamed(compile_tmp, final_path)
    /\ files' = Collect(files)
    /\ UNCHANGED <<remote, looked>>

\* lines 137-141: the header is parsed again and final_path is mapped
\* read-only with that shape; a file shorter than the shape cannot be mapped
OpenStore(p) ==
    /\ pc[p] = "open_store"
    /\ IF dir[vectors_path] = NoInode \/ dir[final_path] = NoInode
       THEN Raise(p, "FileNotFoundError")
       ELSE LET content == files[dir[vectors_path]]
                h == ParseHeader(FirstLine(content))
            IN  IF content.kind \notin {"text", "empty"}
                THEN Raise(p, "UnicodeDecodeError")
                ELSE IF \/ ~h.ok
                        \/ h.words * h.dimensions = 0
                        \/ FileSize(files[dir[final_path]])
                               < h.words * h.dimensions
                     THEN Raise(p, "ValueError")
                     ELSE SetLocals(p, "done", h.words, h.dimensions,
                              NoInode, NoInode, NoInode, 0, 0,
                              [inode |-> dir[final_path], words |-> h.words,
                               dimensions |-> h.dimensions],
                              NoError)
    /\ dir' = dir
    /\ files' = Collect(files)
    /\ UNCHANGED <<remote, looked>>

\* an I/O failure, or the caller's process is interrupted, at any step:
\* what the construction wrote so far stays where it is
Interrupt(p) ==
    /\ pc[p] \in ActivePcs
    /\ Raise(p, "Interrupted")
    /\ dir' = dir
    /\ files' = Collect(files)
    /\ UNCHANGED <<remote, looked>>

\* a caller reads one row of the store it has opened
Lookup(p) ==
    /\ pc[p] = "done"
    /\ \E id \in LookupIds(selfEmbeddings[p].words) :
           LET r == row(files[selfEmbeddings[p].inode],
                        selfEmbeddings[p].words,
                        selfEmbeddings[p].dimensions, id)
           IN  looked' = [looked EXCEPT ![p] =
                             [asked |-> TRUE, id |-> id, ok |-> r.ok,
                              row |-> r.row]]
    /\ UNCHANGED <<remote, dir, files, pc, words, dimensions, embeddings, f,
                   src, lineNo, progress, selfEmbeddings, error>>

Step(p) ==
    \/ Start(p)
    \/ DlOpen(p)
    \/ DlWrite(p)
    \/ DlRename(p)
    \/ CheckFinal(p)
    \/ ReadHeader(p)
    \/ Alloc(p)
    \/ Stream(p)
    \/ ZeroRow(p)
    \/ Flush(p)
    \/ Rename(p)
    \/ OpenStore(p)
    \/ Lookup(p)
    \/ Interrupt(p)

\* one caller, constructing again and again
Next == Step(1)

\* two callers constructing for the same language at the same time
ConcNext == \E p \in Procs : Step(p)

\* between two constructions the vector file is replaced by another release
\* of the vectors, which the URL serves from then on
SourceReplaced ==
    /\ \A p \in Procs : pc[p] \notin ActivePcs
    /\ dir[vectors_path] # NoInode
    /\ \E s \in EnvSources \ {remote} :
           /\ remote' = s
           /\ files' = [files EXCEPT ![dir[vectors_path]] = Text(s)]
    /\ UNCHANGED <<dir, pc, words, dimensions, embeddings, f, src, lineNo,
                   progress, selfEmbeddings, error, looked>>

\* one caller, and a vector file that changes between its constructions
EnvNext == Next \/ SourceReplaced

Spec == Init /\ [][Next]_vars

ConcInit == \E downloaded \in BOOLEAN : InitWith(ConcSources, downloaded)

ConcSpec == ConcInit /\ [][ConcNext]_vars

\* one construction by one caller, no failure from outside and no restart
LiveNext ==
    \/ pc[1] = "idle" /\ Start(1)
    \/ DlOpen(1)
    \/ DlWrite(1)
    \/ DlRename(1)
    \/ CheckFinal(1)
    \/ ReadHeader(1)
    \/ Alloc(1)
    \/ Stream(1)
    \/ ZeroRow(1)
    \/ Flush(1)
    \/ Rename(1)
    \/ OpenStore(1)

\* __init__ is sequential code: a construction that can take a step takes it
LiveInit == InitWith(LiveSources, FALSE)

LiveSpec == LiveInit /\ [][LiveNext]_vars /\ WF_vars(LiveNext)

EnvInit == InitWith(EnvSources, FALSE)

EnvSpec == EnvInit /\ [][EnvNext]_vars

----------------------------------------------------------------------------
(* What the claims speak about *)

Published == dir[final_path] # NoInode
Store == files[dir[final_path]]

CompileSteps == {"read_header", "alloc", "stream", "zero_row", "flush",
                 "rename"}

Max(S) == CHOOSE x \in S : \A y \in S : y <= x

NonZeroRow(content) ==
    /\ content.kind = "matrix"
    /\ \E r \in 1..Len(content.rows) :
           \E j \in 1..Len(content.rows[r]) : content.rows[r][j] # 0

\* the first line is not exactly two integers
BadHeader(source) ==
    \/ source = <<>>
    \/ LET fields == Split(source[1])
       IN  \/ Len(fields) # 2
           \/ \E i \in 1..Len(fields) : ~IsNumber(fields[i])

\* the shape the header of a source with a good header declares
DeclaredWords(source) == ParseNumber(Split(source[1])[1])
DeclaredDimensions(source) == ParseNumber(Split(source[1])[2])

TokenOf(line) == Split(line)[1]
TokenId(line) == token_to_id(TokenOf(line), SequencerVocabSize)
VectorOf(line) ==
    [j \in 1..(Len(Split(line)) - 1) |-> ParseNumber(Split(line)[j + 1])]

ValuesParse(line) ==
    \A j \in 2..Len(Split(line)) : IsNumber(Split(line)[j])

\* a line with too few fields or too short a token
ShortLine(line, d) ==
    \/ Len(Split(line)) < d + 1
    \/ Len(TokenOf(line)) < 3

\* a line with at least d + 1 fields, a token of 3 characters or more and
\* values that all parse
AcceptedAtLeast(line, d) ==
    /\ Len(Split(line)) >= d + 1
    /\ Len(TokenOf(line)) >= 3
    /\ ValuesParse(line)

\* the same with exactly d + 1 fields
AcceptedExactly(line, d) ==
    /\ Len(Split(line)) = d + 1
    /\ Len(TokenOf(line)) >= 3
    /\ ValuesParse(line)

\* the lines of source, by position, that are accepted and whose token has
\* id r
HitsAtLeast(source, d, r) ==
    { i \in 1..Len(source) :
        AcceptedAtLeast(source[i], d) /\ TokenId(source[i]) = r }

HitsExactly(source, d, r) ==
    { i \in 1..Len(source) :
        AcceptedExactly(source[i], d) /\ TokenId(source[i]) = r }

\* the matrix a complete compilation of source leaves: row 0 zero, every
\* other row the vector of the last line accepted for it, or zero
ExpectedRow(source, d, r) ==
    IF r = 0 \/ HitsExactly(source, d, r) = {}
    THEN zeros(d)
    ELSE VectorOf(source[Max(HitsExactly(source, d, r))])

\* row r after the first k lines of source and before the pad row is zeroed
PartialRow(source, k, d, r) ==
    LET hits == { i \in HitsExactly(source, d, r) : i <= k }
    IN  IF hits = {} THEN zeros(d) ELSE VectorOf(source[Max(hits)])

PartialStore(source, k) ==
    Matrix([n \in 1..DeclaredWords(source) |->
               PartialRow(source, k, DeclaredDimensions(source), n - 1)])

ExpectedStore(source) ==
    Matrix([k \in 1..DeclaredWords(source) |->
               ExpectedRow(source, DeclaredDimensions(source), k - 1)])

----------------------------------------------------------------------------
(* Claims *)

\* C1: whenever a file has the destination name, it holds the complete
\* compiled matrix of the source (every line processed, row 0 zeroed); no
\* execution shows a partly written destination.  Stated for every
\* execution, two concurrent constructions included.
C1_DestinationComplete ==
    Published => Store = ExpectedStore(remote)

\* C2: row 0 of a published store is all zeros, whatever the source holds,
\* also when an accepted token hashes to 0 and is the last line.
C2_PadRowZero ==
    Published =>
        /\ Store.kind = "matrix"
        /\ \A j \in 1..Len(Store.rows[1]) : Store.rows[1][j] = 0

C2_Witness ==
    /\ Published
    /\ Len(remote) >= 2
    /\ AcceptedExactly(remote[Len(remote)], DeclaredDimensions(remote))
    /\ TokenId(remote[Len(remote)]) = 0
    /\ NonZeroRow(Store)

\* C3: a compilation that failed at a step before the publishing rename
\* leaves no file under the destination name (and the source as it was).
C3_FailedLeavesNoDestination ==
    \A p \in Procs :
        (pc[p] = "failed" /\ error[p].at \in CompileSteps) =>
            /\ ~Published
            /\ dir[vectors_path] # NoInode
            /\ files[dir[vectors_path]].lines = remote

C3_Witness ==
    \E p \in Procs :
        /\ pc[p] = "failed"
        /\ error[p] = [type |-> "IndexError", at |-> "stream"]
        /\ dir[compile_tmp] # NoInode
        /\ NonZeroRow(files[dir[compile_tmp]])

\* C4: a compilation started over an orphaned temporary file succeeds like
\* an uninterrupted one: it maps a matrix of zeros whatever the orphan held,
\* the matrix holds the first lines of the source and nothing else while
\* the loop runs, and the store it publishes is the one a complete
\* compilation of the source gives.
C4_FromScratch ==
    \A p \in Procs :
        /\ pc[p] = "stream" =>
              files[embeddings[p]] = PartialStore(remote, lineNo[p])
        /\ (pc[p] = "open_store" /\ words[p] > 0) =>
              (Published /\ Store = ExpectedStore(remote))

C4_AllocStartsFromZeros ==
    \A p \in Procs :
        (pc[p] = "alloc" /\ pc'[p] = "stream") =>
            files'[embeddings'[p]] = ZeroMatrix(words[p], dimensions[p])

C4_RecompileAfterInterrupt ==
    [] C4_FromScratch /\ [][C4_AllocStartsFromZeros]_vars

\* a compilation about to map the temporary file an interrupted one left
\* with rows written and the pad row not yet zeroed
C4_Witness ==
    \E p \in Procs :
        /\ pc[p] = "alloc"
        /\ ~Published
        /\ dir[compile_tmp] # NoInode
        /\ NonZeroRow(files[dir[compile_tmp]])
        /\ files[dir[compile_tmp]] # ExpectedStore(remote)

AtLine(p) ==
    /\ pc[p] = "stream"
    /\ files[src[p]].kind = "text"
    /\ lineNo[p] < Len(files[src[p]].lines)
CurrentLine(p) == files[src[p]].lines[lineNo[p] + 1]

\* C6: a step at a line with fewer than D+1 fields or a token shorter than 3
\* characters changes no file and raises nothing: the loop moves to the next
\* line (or the caller is interrupted from outside).
C6_ShortLineStep ==
    \A p \in Procs :
        (AtLine(p) /\ ShortLine(CurrentLine(p), dimensions[p])) =>
            /\ files' = files
            /\ \/ pc'[p] = "stream" /\ lineNo'[p] = lineNo[p] + 1
                  /\ error'[p] = error[p]
               \/ pc'[p] = "failed" /\ error'[p].type = "Interrupted"

C6_ShortLineSkipped == [][C6_ShortLineStep]_vars

C6_Witness ==
    \E p \in Procs :
        /\ pc[p] = "stream"
        /\ lineNo[p] = 3
        /\ Len(Split(remote[3])) = dimensions[p] + 1
        /\ Len(TokenOf(remote[3])) < 3
        /\ ValuesParse(remote[3])
        /\ NonZeroRow(files[embeddings[p]])

\* C7: no line aborts the compilation: the loop never ends a construction
\* with an exception of its own.
C7_NoLineAborts ==
    \A p \in Procs :
        ~(pc[p] = "failed" /\ error[p].at = "stream"
          /\ error[p].type # "Interrupted")

\* C8: with a first line that is not exactly two integers no construction
\* gets past the header: the only exception of its own is the ValueError of
\* the header, no matrix file is ever created and nothing is published.
C8_MalformedHeaderFails ==
    BadHeader(remote) =>
        /\ ~Published
        /\ \A i \in Inodes : files[i].kind # "matrix"
        /\ \A p \in Procs :
              /\ pc[p] \notin {"alloc", "stream", "zero_row", "flush",
                               "rename", "open_store", "done"}
              /\ pc[p] = "failed" =>
                    \/ error[p].type = "Interrupted"
                    \/ error[p] = [type |-> "ValueError",
                                   at |-> "read_header"]

C8_Witness ==
    \E p \in Procs :
        /\ pc[p] = "failed"
        /\ error[p] = [type |-> "ValueError", at |-> "read_header"]
        /\ Len(remote) >= 2
        /\ Len(Split(remote[1])) = 3
        /\ \A i \in 1..3 : IsNumber(Split(remote[1])[i])

\* C9: while a file has the destination name, no step of a construction
\* creates, writes or renames a file, and no construction enters a download
\* or compilation step; so a construction started then only opens the store.
C9_SkipStep ==
    Published =>
        /\ dir' = dir
        /\ files' = files
        /\ \A p \in Procs :
              pc'[p] \in {"idle", "check_final", "open_store", "done",
                          "failed"}

C9_CompileSkipped == [][C9_SkipStep]_vars

\* a construction that reached the opening of the store without having
\* parsed a header for a compilation
C9_Witness ==
    \E p \in Procs :
        /\ pc[p] = "open_store"
        /\ words[p] = 0
        /\ Published
        /\ NonZeroRow(Store)
        /\ dir[compile_tmp] = NoInode

\* C10: once a file has the destination name, that name keeps a file and its
\* content never changes, under every interleaving of the callers.
C10_PublishedStep ==
    Published =>
        /\ dir'[final_path] # NoInode
        /\ files'[dir'[final_path]] = Store

C10_PublishedImmutable == [][C10_PublishedStep]_vars

----------------------------------------------------------------------------
\* C11: a row lookup on an opened store fails (returns no row) exactly when
\* the id lies outside 0..words-1, negative ids such as -1 included, and
\* a lookup inside the range returns that row's values
C11_OutOfRangeRejected ==
    \A p \in Procs :
        looked[p].asked =>
            /\ looked[p].ok <=> looked[p].id \in 0..(selfEmbeddings[p].words - 1)
            /\ looked[p].ok =>
                   looked[p].row = ViewRow(files[selfEmbeddings[p].inode],
                                           selfEmbeddings[p].dimensions,
                                           looked[p].id)

\* the matrix one run of the loop (lines 121-130) over the first k lines of
\* source builds from the zeros of a fresh mapping of shape (w, d)
RECURSIVE StreamedPrefix(_, _, _, _)
StreamedPrefix(source, k, w, d) ==
    IF k = 0
    THEN Matrix([r \in 1..w |-> zeros(d)])
    ELSE LET before == StreamedPrefix(source, k - 1, w, d)
             e == LineEffect(source[k], w, d)
         IN  IF e.kind = "write"
             THEN WriteRow(before, w, d, e.word, e.numbers)
             ELSE before

\* the store one uninterrupted run over source, started in an empty
\* directory, publishes
CompiledStore(source) ==
    LET w == DeclaredWords(source)
        d == DeclaredDimensions(source)
    IN  ZeroPad(StreamedPrefix(source, Len(source), w, d), w, d)

\* C12: the matrix a compilation builds and publishes is a function of the
\* source only: at every line of the loop it is what one run over those
\* lines builds from zeros, and the flushed and the published matrix are
\* what one uninterrupted run over the source gives, whatever earlier runs
\* left behind (an orphaned temporary file, a failed or interrupted run).
C12_FunctionOfSource ==
    /\ \A p \in Procs :
          /\ pc[p] = "stream" =>
                files[embeddings[p]] =
                    StreamedPrefix(remote, lineNo[p], DeclaredWords(remote),
                                   DeclaredDimensions(remote))
          /\ pc[p] = "flush" =>
                files[embeddings[p]] = CompiledStore(remote)
    /\ Published => Store = CompiledStore(remote)

C12_Witness ==
    \E p \in Procs :
        /\ pc[p] = "done"
        /\ Published
        /\ Len(remote) = 3
        /\ NonZeroRow(Store)
        /\ Store = CompiledStore(remote)

\* C13: every row index a compilation computes for a line it accepts lies
\* in 0..words-1, words being the size the header declares, so that no row
\* write addresses a row outside the mapped matrix.
C13_RowIndexBounded ==
    \A p \in Procs :
        (AtLine(p) /\ AcceptedAtLeast(CurrentLine(p), dimensions[p])) =>
            transform(<<TokenOf(CurrentLine(p))>>)[1][1]
                \in 0..(words[p] - 1)

\* the inodes caller p can write through: its mapping and its download file
WriteHandles(p) == {embeddings[p], f[p]} \ {NoInode}

\* C14: the temporary file of a compilation is private to it: at no time
\* does another caller (compiling, or downloading) hold a writable handle
\* on the file a caller has mapped for its compilation.
C14_TemporaryPrivate ==
    \A p \in Procs : \A q \in Procs \ {p} :
        embeddings[p] # NoInode => embeddings[p] \notin WriteHandles(q)

\* C15: the header line never causes a row write: when the loop has consumed
\* at most the first line of the source, the matrix is still all zeros, for
\* every valid header (one with a single dimension and a 3-character word
\* count included).
C15_HeaderNotStreamed ==
    \A p \in Procs :
        (pc[p] = "stream" /\ lineNo[p] <= 1) =>
            files[embeddings[p]] = ZeroMatrix(words[p], dimensions[p])

\* a line with a value field that is not a number
Unparsable(line) == Split(line) # <<>> /\ ~ValuesParse(line)

\* C16: a step at a line with a value that does not parse changes no file
\* (the target row keeps what it held, no prefix of the values is written,
\* no other row changes) and raises nothing: the loop moves to the next
\* line (or the caller is interrupted from outside).
C16_UnparsableStep ==
    \A p \in Procs :
        (AtLine(p) /\ Unparsable(CurrentLine(p))) =>
            /\ files' = files
            /\ \/ pc'[p] = "stream" /\ lineNo'[p] = lineNo[p] + 1
                  /\ error'[p] = error[p]
               \/ pc'[p] = "failed" /\ error'[p].type = "Interrupted"

C16_AllOrNothing == [][C16_UnparsableStep]_vars

C16_Witness ==
    \E p \in Procs :
        /\ pc[p] = "stream"
        /\ lineNo[p] = 3
        /\ Len(Split(remote[3])) = dimensions[p] + 1
        /\ Len(TokenOf(remote[3])) >= 3
        /\ IsNumber(Split(remote[3])[2])
        /\ Unparsable(remote[3])
        /\ files[embeddings[p]].rows[TokenId(remote[3]) + 1]
               # zeros(dimensions[p])

\* the step that may follow each step of a compilation
NextStep(step) ==
    CASE step = "read_header" -> "alloc"
      [] step = "alloc"       -> "stream"
      [] step = "stream"      -> "zero_row"
      [] step = "zero_row"    -> "flush"
      [] step = "flush"       -> "rename"
      [] step = "rename"      -> "open_store"

\* C17: the steps of a compilation occur in one order: header, allocation,
\* the lines one by one in file order, pad row, flush, rename.  A step
\* leads to the next one or to failure; the loop ends only when every line
\* is consumed; the destination name changes only in the rename step of a
\* caller that has flushed and released its mapping; no file changes from
\* the flush on.
C17_OrderStep ==
    /\ dir'[final_path] # dir[final_path] =>
          \E p \in Procs : pc[p] = "rename" /\ pc'[p] = "open_store"
    /\ \A p \in Procs :
        /\ (pc[p] \in CompileSteps /\ pc'[p] # pc[p]) =>
              pc'[p] \in {NextStep(pc[p]), "failed"}
        /\ (pc[p] = "stream" /\ pc'[p] = "stream") =>
              lineNo'[p] \in {lineNo[p], lineNo[p] + 1}
        /\ (pc[p] = "stream" /\ pc'[p] = "zero_row") =>
              /\ lineNo[p] = Len(remote)
              /\ lineNo'[p] = lineNo[p]
        /\ (pc[p] = "rename" /\ pc'[p] = "open_store") =>
              /\ embeddings[p] = NoInode
              /\ dir[final_path] = NoInode
              /\ dir'[final_path] = dir[compile_tmp]
        /\ pc[p] \in {"flush", "rename", "open_store", "done"} =>
              files' = files

C17_FixedOrder == [][C17_OrderStep]_vars

C17_Witness ==
    \E p \in Procs :
        /\ pc[p] = "open_store"
        /\ words[p] > 0
        /\ lineNo[p] = 3
        /\ Len(remote) = 3
        /\ Published
        /\ NonZeroRow(Store)

\* C18: the shape a caller has opened the published store with is the shape
\* the store was compiled with, also when the vector file was replaced by
\* one with another header after the store was compiled.
C18_OpenedWithCompiledShape ==
    \A p \in Procs :
        pc[p] = "done" =>
            LET content == files[selfEmbeddings[p].inode]
            IN  /\ content.kind = "matrix"
                /\ Len(content.rows) = selfEmbeddings[p].words
                /\ Len(content.rows[1]) = selfEmbeddings[p].dimensions

\* a line with more than d + 1 fields
LongLine(line, d) == Len(Split(line)) > d + 1

\* C19: a step at a line with more than D+1 fields changes no file and
\* raises nothing: the loop moves to the next line (or the caller is
\* interrupted from outside).
C19_LongLineStep ==
    \A p \in Procs :
        (AtLine(p) /\ LongLine(CurrentLine(p), dimensions[p])) =>
            /\ files' = files
            /\ \/ pc'[p] = "stream" /\ lineNo'[p] = lineNo[p] + 1
                  /\ error'[p] = error[p]
               \/ pc'[p] = "failed" /\ error'[p].type = "Interrupted"

C19_LongLineSkipped == [][C19_LongLineStep]_vars

\* the first line is two integers that declare a matrix with at least the
\* pad row
WellFormedHeader(source) ==
    /\ ~BadHeader(source)
    /\ DeclaredWords(source) > 0
    /\ DeclaredDimensions(source) > 0

\* C20: one construction over a source with a well-formed header, started
\* with no destination file and meeting no failure from outside, eventually
\* has streamed every line of the source once, published the destination
\* and opened it.
C20_EventuallyDone ==
    WellFormedHeader(remote) =>
        /\ <>(pc[1] = "rename" /\ lineNo[1] = Len(remote))
        /\ <>(pc[1] = "done" /\ Published)

============================================================================
